---- MODULE Spec2Model ----
(***************************************************************************)
(* Model of the win/loss reaction bot (src/Index.js).                      *)
(*                                                                         *)
(* The state is the in-memory configuration document (enabledChannels,     *)
(* contentFilters, statistics), the configuration file on disk, and one    *)
(* record per suspended messageCreate / interactionCreate handler.  An     *)
(* async handler runs synchronously up to its next await; every action     *)
(* below is one such synchronous segment, and `event` tells which segment  *)
(* ran last and what the handler's record was when the segment ended.      *)
(* The logger (src/commands/utils/logger.js) is its threshold and the      *)
(* lines the last step passed to the console and to the log file.          *)
(***************************************************************************)
EXTENDS Integers, Sequences, FiniteSets, TLC

VARIABLES
    enabledChannels,   \* config.enabledChannels: array of channel ids
    contentFilters,    \* config.contentFilters
    statistics,        \* config.statistics
    file,              \* contents of ./config.json: a JSON text
    saveCalls,         \* number of calls of saveConfig so far
    saved,             \* what saveConfig did in the last step
    startup,           \* config.statistics as loaded at startup
    messages,          \* the messageCreate handlers suspended at an await
    interactions,      \* the interactionCreate handlers suspended at an await
    received,          \* number of message / interaction events received
    chanCall,          \* the addChannel / removeChannel call of the last step
    event,             \* the handler segment that ran in the last step
    process,           \* "running", or "exited" with its exit code
    currentLevel,      \* logger.currentLevel
    logged             \* levels of the lines the last step has logged

vars == <<enabledChannels, contentFilters, statistics, file, saveCalls,
          saved, startup, messages, interactions, received, chanCall, event,
          process, currentLevel, logged>>

----------------------------------------------------------------------------
(* Bounds of the model *)

\* Events (messages and interactions) received in one run
MaxEvents == 2

Channels == {"c1", "c2"}

----------------------------------------------------------------------------
(* Strings are sequences of one-character strings. *)

UpperChars == <<"W", "I", "N", "G", "S", "P", "A", "M">>
LowerChars == <<"w", "i", "n", "g", "s", "p", "a", "m">>

\* LATIN CAPITAL LETTER I WITH DOT ABOVE, one UTF-16 code unit, whose
\* lower case is the two code units "i" and COMBINING DOT ABOVE
DottedI == "U+0130"
CombiningDot == "U+0307"

\* String.prototype.toLowerCase on one character
ToLowerChar(c) ==
    IF c = DottedI THEN <<"i", CombiningDot>>
    ELSE IF \E i \in DOMAIN UpperChars : UpperChars[i] = c
    THEN <<LowerChars[CHOOSE i \in DOMAIN UpperChars : UpperChars[i] = c]>>
    ELSE <<c>>

RECURSIVE toLowerCase(_)
toLowerCase(s) ==
    IF s = <<>> THEN <<>> ELSE ToLowerChar(Head(s)) \o toLowerCase(Tail(s))

\* String.prototype.includes: k occurs in s as a contiguous substring
includes(s, k) ==
    \E i \in 0..(Len(s) - Len(k)) :
        \A j \in 1..Len(k) : s[i + j] = k[j]

\* Array.prototype.includes / indexOf on the channel array
ArrayIncludes(arr, x) == \E i \in DOMAIN arr : arr[i] = x

IndexOf(arr, x) ==
    IF ArrayIncludes(arr, x)
    THEN CHOOSE i \in DOMAIN arr :
            arr[i] = x /\ \A j \in DOMAIN arr : arr[j] = x => i <= j
    ELSE 0

\* Array.prototype.splice(index, 1)
Splice1(arr, index) ==
    [i \in 1..(Len(arr) - 1) |-> IF i < index THEN arr[i] ELSE arr[i + 1]]

\* A handler that has returned is dropped from the suspended handlers
RemoveAt(seq, m) == Splice1(seq, m)

Count(arr, x) == Cardinality({i \in DOMAIN arr : arr[i] = x})

----------------------------------------------------------------------------
(* Logger (src/commands/utils/logger.js) *)

\* JavaScript values the logger compares: a number, a function, undefined
Number(n) == [type |-> "number", value |-> n]
Function == [type |-> "function", value |-> 0]
Undefined == [type |-> "undefined", value |-> 0]

\* this.logLevels
LevelNames == {"error", "warn", "info", "debug"}
logLevels == [error |-> 0, warn |-> 1, info |-> 2, debug |-> 3]

\* Property names every object inherits from Object.prototype
InheritedNames == {"toString", "constructor"}

\* Names setLevel is called with
SetLevelInputs == LevelNames \cup InheritedNames \cup {"verbose"}

\* this.logLevels[name]: own properties are numbers, inherited ones are
\* functions, any other name gives undefined
GetLevel(name) ==
    IF name \in LevelNames THEN Number(logLevels[name])
    ELSE IF name \in InheritedNames THEN Function
    ELSE Undefined

\* name in this.logLevels: the in operator finds inherited properties too
In(name) == name \in LevelNames \cup InheritedNames

\* a <= b: an operand that is no number converts to NaN, and every
\* comparison with NaN is false
LessOrEqual(a, b) ==
    a.type = "number" /\ b.type = "number" /\ a.value <= b.value

\* this.currentLevel = 2 in the constructor
DefaultLevel == Number(2)

\* setLevel(level)
setLevel(level) ==
    currentLevel' = IF In(level) THEN GetLevel(level) ELSE currentLevel

\* The test of log(level, ...): the line goes to the console and to
\* writeToFile when it holds
Emits(level) == LessOrEqual(GetLevel(level), currentLevel)

\* The lines that a sequence of log calls (given by their levels) emits
Logged(calls) == SelectSeq(calls, Emits)

----------------------------------------------------------------------------
(* Configuration store *)

\* Parts of the document that the program loads and writes back and
\* never changes
Reactions == [winEmoji |-> "W", lossEmoji |-> "L"]
Settings == [autoSave |-> TRUE]

\* The configuration document held in memory
Config ==
    [enabledChannels |-> enabledChannels,
     contentFilters  |-> contentFilters,
     reactions       |-> Reactions,
     settings        |-> Settings,
     statistics      |-> statistics]

\* JSON texts are kept as trees of tokens: a number is its decimal digits,
\* a boolean the literal true or false, a string its quoted characters
Digits == <<"0", "1", "2", "3", "4", "5", "6", "7", "8", "9">>

RECURSIVE NumberToString(_)
NumberToString(n) ==
    IF n < 10 THEN <<Digits[n + 1]>>
    ELSE NumberToString(n \div 10) \o <<Digits[(n % 10) + 1]>>

DigitValue(d) == (CHOOSE i \in DOMAIN Digits : Digits[i] = d) - 1

RECURSIVE StringToNumber(_)
StringToNumber(s) ==
    IF Len(s) = 1 THEN DigitValue(s[1])
    ELSE 10 * StringToNumber(SubSeq(s, 1, Len(s) - 1))
            + DigitValue(s[Len(s)])

JSONNumber(n) == [number |-> NumberToString(n)]
JSONString(str) == [string |-> str]
JSONBoolean(b) == [literal |-> IF b THEN "true" ELSE "false"]
JSONStrings(arr) == [i \in DOMAIN arr |-> JSONString(arr[i])]

ParseNumber(t) == StringToNumber(t.number)
ParseString(t) == t.string
ParseBoolean(t) == t.literal = "true"
ParseStrings(t) == [i \in DOMAIN t |-> ParseString(t[i])]

\* Variant: the statistics are written as they were loaded at startup
JSONStringifyStale(c) ==
    [enabledChannels |-> JSONStrings(c.enabledChannels),
     contentFilters  |->
        [enabled          |-> JSONBoolean(c.contentFilters.enabled),
         requiredKeywords |-> JSONStrings(c.contentFilters.requiredKeywords),
         excludedKeywords |-> JSONStrings(c.contentFilters.excludedKeywords),
         minLength        |-> JSONNumber(c.contentFilters.minLength)],
     reactions       |->
        [winEmoji  |-> JSONString(c.reactions.winEmoji),
         lossEmoji |-> JSONString(c.reactions.lossEmoji)],
     settings        |-> [autoSave |-> JSONBoolean(c.settings.autoSave)],
     statistics      |->
        [totalReactions    |-> JSONNumber(startup.totalReactions),
         messagesProcessed |-> JSONNumber(startup.messagesProcessed),
         failedReactions   |-> JSONNumber(startup.failedReactions),
         lastReactionTime  |-> JSONString(startup.lastReactionTime)]]

\* JSON.stringify(config, null, 2)
JSONStringify(c) ==
    [enabledChannels |-> JSONStrings(c.enabledChannels),
     contentFilters  |->
        [enabled          |-> JSONBoolean(c.contentFilters.enabled),
         requiredKeywords |-> JSONStrings(c.contentFilters.requiredKeywords),
         excludedKeywords |-> JSONStrings(c.contentFilters.excludedKeywords),
         minLength        |-> JSONNumber(c.contentFilters.minLength)],
     reactions       |->
        [winEmoji  |-> JSONString(c.reactions.winEmoji),
         lossEmoji |-> JSONString(c.reactions.lossEmoji)],
     settings        |-> [autoSave |-> JSONBoolean(c.settings.autoSave)],
     statistics      |->
        [totalReactions    |-> JSONNumber(c.statistics.totalReactions),
         messagesProcessed |-> JSONNumber(c.statistics.messagesProcessed),
         failedReactions   |-> JSONNumber(c.statistics.failedReactions),
         lastReactionTime  |-> JSONString(c.statistics.lastReactionTime)]]

\* JSON.parse of the file's text
JSONParse(t) ==
    [enabledChannels |-> ParseStrings(t.enabledChannels),
     contentFilters  |->
        [enabled          |-> ParseBoolean(t.contentFilters.enabled),
         requiredKeywords |-> ParseStrings(t.contentFilters.requiredKeywords),
         excludedKeywords |-> ParseStrings(t.contentFilters.excludedKeywords),
         minLength        |-> ParseNumber(t.contentFilters.minLength)],
     reactions       |->
        [winEmoji  |-> ParseString(t.reactions.winEmoji),
         lossEmoji |-> ParseString(t.reactions.lossEmoji)],
     settings        |-> [autoSave |-> ParseBoolean(t.settings.autoSave)],
     statistics      |->
        [totalReactions    |-> ParseNumber(t.statistics.totalReactions),
         messagesProcessed |-> ParseNumber(t.statistics.messagesProcessed),
         failedReactions   |-> ParseNumber(t.statistics.failedReactions),
         lastReactionTime  |-> ParseString(t.statistics.lastReactionTime)]]

\* Filter settings a configuration file may carry
FilterConfigs ==
    { [enabled          |-> en,
       requiredKeywords |-> <<<<"w", "i", "n">>>>,
       excludedKeywords |-> <<<<"s", "p", "a", "m">>>>,
       minLength        |-> 3] : en \in BOOLEAN }

\* Statistics a configuration file may carry
InitTotals == {0, 8}

InitStatistics ==
    { [totalReactions    |-> t,
       messagesProcessed |-> t \div 2,
       failedReactions   |-> 0,
       lastReactionTime  |-> "loaded"] : t \in InitTotals }

\* Channel arrays a configuration file may carry
InitChannels ==
    { <<>>, <<"c1">>, <<"c2">>, <<"c1", "c2">>, <<"c2", "c1">> }

\* lastReactionTime is the value loaded from the file or a timestamp taken
\* by new Date() since startup
Now == "now"

Running == process.status = "running"

EventsReceived == received.messages + received.interactions

\* saveConfig(): writes the document as it stands after the caller's
\* mutation; ok is whether fs.writeFileSync succeeds.  Returns ok.
saveConfig(ok) ==
    /\ saveCalls' = saveCalls + 1
    /\ file' = IF ok THEN JSONStringify(Config') ELSE file
    /\ saved' = IF ok THEN "written" ELSE "failed"

NoSave == UNCHANGED <<saveCalls, file>> /\ saved' = "none"

\* line 55: the error line of a saveConfig call that failed in this step
SaveLog == IF saved' = "failed" THEN <<"error">> ELSE <<>>

\* Variant: the check passes as soon as any channel is enabled
isChannelEnabledAny(channelId) == Len(enabledChannels) > 0

isChannelEnabled(channelId) == ArrayIncludes(enabledChannels, channelId)

NoCall == [op |-> "none"]

\* Whether the previous step made the same call
Again(op, channelId) == chanCall.op = op /\ chanCall.id = channelId

\* Variant: the id is pushed without the membership test
addChannelAlways(channelId, ok) ==
    /\ enabledChannels' = Append(enabledChannels, channelId)
    /\ saveConfig(ok)
    /\ chanCall' = [op |-> "addChannel", id |-> channelId,
                    present |-> ArrayIncludes(enabledChannels, channelId),
                    ret |-> ok, again |-> Again("addChannel", channelId)]

\* Variant: the push is undone when the file write fails
addChannelRollback(channelId, ok) ==
    IF ~ArrayIncludes(enabledChannels, channelId)
    THEN /\ enabledChannels' = IF ok THEN Append(enabledChannels, channelId)
                               ELSE enabledChannels
         /\ saveConfig(ok)
         /\ chanCall' = [op |-> "addChannel", id |-> channelId,
                         present |-> FALSE, ret |-> ok,
                         again |-> Again("addChannel", channelId)]
    ELSE /\ UNCHANGED enabledChannels
         /\ NoSave
         /\ chanCall' = [op |-> "addChannel", id |-> channelId,
                         present |-> TRUE, ret |-> TRUE,
                         again |-> Again("addChannel", channelId)]

\* addChannel(channelId); chanCall keeps the call, whether the id was
\* present when it was made, whether it repeats the call made just before,
\* and the value it returns
addChannel(channelId, ok) ==
    IF ~ArrayIncludes(enabledChannels, channelId)
    THEN /\ enabledChannels' = Append(enabledChannels, channelId)
         /\ saveConfig(ok)
         /\ chanCall' = [op |-> "addChannel", id |-> channelId,
                         present |-> FALSE, ret |-> ok,
                         again |-> Again("addChannel", channelId)]
    ELSE /\ UNCHANGED enabledChannels
         /\ NoSave
         /\ chanCall' = [op |-> "addChannel", id |-> channelId,
                         present |-> TRUE, ret |-> TRUE,
                         again |-> Again("addChannel", channelId)]

\* Variant: the index is not tested, and splice(-1, 1) removes the last id
removeChannelNoCheck(channelId, ok) ==
    LET index == IndexOf(enabledChannels, channelId) - 1
        at    == IF index > -1 THEN index + 1 ELSE Len(enabledChannels)
    IN  /\ enabledChannels' = IF enabledChannels = <<>> THEN <<>>
                               ELSE Splice1(enabledChannels, at)
        /\ saveConfig(ok)
        /\ chanCall' = [op |-> "removeChannel", id |-> channelId,
                        present |-> index > -1, ret |-> ok,
                        again |-> Again("removeChannel", channelId)]

\* removeChannel(channelId)
removeChannel(channelId, ok) ==
    LET index == IndexOf(enabledChannels, channelId) - 1
    IN  IF index > -1
        THEN /\ enabledChannels' = Splice1(enabledChannels, index + 1)
             /\ saveConfig(ok)
             /\ chanCall' = [op |-> "removeChannel", id |-> channelId,
                             present |-> TRUE, ret |-> ok,
                             again |-> Again("removeChannel", channelId)]
        ELSE /\ UNCHANGED enabledChannels
             /\ NoSave
             /\ chanCall' = [op |-> "removeChannel", id |-> channelId,
                             present |-> FALSE, ret |-> TRUE,
                             again |-> Again("removeChannel", channelId)]

----------------------------------------------------------------------------
(* Message reaction pipeline: client.on('messageCreate') *)

\* Message contents received
Contents == { <<"G", "G">>, <<"W", "i", "n">> }

\* pc values at which a handler is suspended at an await
Suspended == {"awaitWin", "awaitLoss", "awaitResponse", "awaitError"}

\* Variant: one shared slot holds the suspended handler, and a handler
\* that suspends overwrites it
StartOverwriting(handlers, h) ==
    IF h.pc \in Suspended THEN <<h>> ELSE handlers

\* The suspended handlers after handler record h has been added
Start(handlers, h) ==
    IF h.pc \in Suspended THEN Append(handlers, h) ELSE handlers

\* The suspended handlers after handler m has run on to record h
Resume(handlers, m, h) ==
    IF h.pc \in Suspended THEN [handlers EXCEPT ![m] = h]
    ELSE RemoveAt(handlers, m)

\* Variant: the author check is missing
IgnoresAuthorNever(bot) == FALSE

\* line 96: messages of bot accounts (the bot itself included) are ignored
IgnoresAuthor(bot) == bot

\* Variant: a required keyword in the content settles the keyword checks
PassesFiltersRequiredFirst(text) ==
    IF contentFilters.enabled
    THEN LET content  == toLowerCase(text)
             required == contentFilters.requiredKeywords
             excluded == contentFilters.excludedKeywords
             hasRequired ==
                \E i \in DOMAIN required :
                    includes(content, toLowerCase(required[i]))
         IN  /\ (Len(required) > 0 => hasRequired)
             /\ (hasRequired \/
                    ~\E i \in DOMAIN excluded :
                        includes(content, toLowerCase(excluded[i])))
             /\ ~(Len(content) < contentFilters.minLength)
    ELSE TRUE

\* lines 102-123: the content filters
PassesFilters(text) ==
    IF contentFilters.enabled
    THEN LET content  == toLowerCase(text)
             required == contentFilters.requiredKeywords
             excluded == contentFilters.excludedKeywords
         IN  /\ (Len(required) > 0 =>
                    \E i \in DOMAIN required :
                        includes(content, toLowerCase(required[i])))
             /\ ~(/\ Len(excluded) > 0
                  /\ \E i \in DOMAIN excluded :
                        includes(content, toLowerCase(excluded[i])))
             /\ ~(Len(content) < contentFilters.minLength)
    ELSE TRUE

\* lines 96-127: the handler's record once its first segment has run:
\* it has returned, or it has called message.react(winEmoji)
NewMessage(bot, channelId, text) ==
    LET base == [calls |-> <<>>, results |-> <<>>, pc |-> "start"]
    IN  IF IgnoresAuthor(bot) THEN [base EXCEPT !.pc = "ignoredBot"]
        ELSE IF ~isChannelEnabled(channelId)
             THEN [base EXCEPT !.pc = "ignoredChannel"]
        ELSE IF ~PassesFilters(text) THEN [base EXCEPT !.pc = "filtered"]
        ELSE [base EXCEPT !.calls = <<"winEmoji">>, !.pc = "awaitWin"]

\* lines 94-127: the messageCreate handler runs to its first await;
\* received.accepted counts the messages that passed every check
OnMessageCreate(bot, channelId, text) ==
    /\ Running
    /\ received' =
            [received EXCEPT
                !.messages = @ + 1,
                !.accepted =
                    IF NewMessage(bot, channelId, text).pc = "awaitWin"
                    THEN @ + 1 ELSE @]
    /\ messages' = Start(messages, NewMessage(bot, channelId, text))
    /\ event' = [type |-> "messageCreate", bot |-> bot,
                 channel |-> channelId, content |-> text,
                 handler |-> NewMessage(bot, channelId, text)]
    /\ chanCall' = NoCall
    /\ NoSave
    /\ logged' = <<>>
    /\ UNCHANGED <<enabledChannels, contentFilters, statistics, startup,
                   interactions, process, currentLevel>>

\* A message arrives
MessageCreate(bot, channelId, text) ==
    /\ EventsReceived < MaxEvents
    /\ OnMessageCreate(bot, channelId, text)

\* Variant: a failed message is counted as processed as well
CatchReactionErrorCounted(stats) ==
    [stats EXCEPT !.failedReactions = @ + 1, !.messagesProcessed = @ + 1]

\* lines 142-155: the catch block
CatchReactionError(stats) ==
    [stats EXCEPT !.failedReactions = @ + 1]

\* Variant: a message is counted for each of its two reactions
UpdateStatisticsPerReaction(stats) ==
    [stats EXCEPT !.totalReactions    = @ + 2,
                  !.messagesProcessed = @ + 2,
                  !.lastReactionTime  = Now]

\* Variant: one reaction counted per message
UpdateStatisticsByOne(stats) ==
    [stats EXCEPT !.totalReactions    = @ + 1,
                  !.messagesProcessed = @ + 1,
                  !.lastReactionTime  = Now]

\* lines 133-135: the statistics update after both reactions
UpdateStatistics(stats) ==
    [stats EXCEPT !.totalReactions    = @ + 2,
                  !.messagesProcessed = @ + 1,
                  !.lastReactionTime  = Now]

\* line 138: statistics are saved when totalReactions is a multiple of 10
SaveDue(stats) == stats.totalReactions % 10 = 0

\* Variant: each reaction has its own try block, so that the loss
\* reaction is requested after a failed win reaction as well
AfterWinAlways(msg, ok) ==
    [msg EXCEPT !.results = Append(@, IF ok THEN "ok" ELSE "error"),
                !.calls   = Append(@, "lossEmoji"),
                !.pc      = "awaitLoss"]

\* lines 127-128: the handler's record after message.react(winEmoji) has
\* settled: on success it calls message.react(lossEmoji)
AfterWin(msg, ok) ==
    IF ok
    THEN [msg EXCEPT !.results = Append(@, "ok"),
                     !.calls   = Append(@, "lossEmoji"),
                     !.pc      = "awaitLoss"]
    ELSE [msg EXCEPT !.results = Append(@, "error"), !.pc = "failed"]

\* lines 128-155: the handler's record after message.react(lossEmoji) has
\* settled
AfterLoss(msg, ok) ==
    IF ok
    THEN [msg EXCEPT !.results = Append(@, "ok"), !.pc = "reacted"]
    ELSE [msg EXCEPT !.results = Append(@, "error"), !.pc = "failed"]

\* error.code of a failed message.react call: the three codes the catch
\* block tells apart, and any other
ReactErrorCodes == {10008, 50013, 30010, 0}

\* lines 143-152: the lines the catch block logs
CatchLog(code) ==
    <<"error">> \o (IF code = 10008 THEN <<"warn">>
                    ELSE IF code = 50013 THEN <<"error">>
                    ELSE IF code = 30010 THEN <<"warn">>
                    ELSE <<>>)

\* lines 127-128, 142-155: message.react(winEmoji) settles
WinSettles(m, ok, code) ==
    /\ Running
    /\ m \in DOMAIN messages
    /\ messages[m].pc = "awaitWin"
    /\ messages' = Resume(messages, m, AfterWin(messages[m], ok))
    /\ statistics' = IF ok THEN statistics ELSE CatchReactionError(statistics)
    /\ event' = [type |-> "reactSettles", emoji |-> "winEmoji", ok |-> ok,
                 handler |-> AfterWin(messages[m], ok)]
    /\ chanCall' = NoCall
    /\ NoSave
    /\ logged' = IF ok THEN <<>> ELSE Logged(CatchLog(code))
    /\ UNCHANGED <<enabledChannels, contentFilters, startup, interactions,
                   received, process, currentLevel>>

\* lines 128-155: message.react(lossEmoji) settles
LossSettles(m, ok, code, saveOk) ==
    /\ Running
    /\ m \in DOMAIN messages
    /\ messages[m].pc = "awaitLoss"
    /\ UNCHANGED <<enabledChannels, contentFilters>>
    /\ messages' = Resume(messages, m, AfterLoss(messages[m], ok))
    /\ IF ok
       THEN /\ statistics' = UpdateStatistics(statistics)
            /\ IF SaveDue(statistics') THEN saveConfig(saveOk) ELSE NoSave
       ELSE /\ statistics' = CatchReactionError(statistics)
            /\ NoSave
    /\ event' = [type |-> "reactSettles", emoji |-> "lossEmoji", ok |-> ok,
                 handler |-> AfterLoss(messages[m], ok)]
    /\ chanCall' = NoCall
    /\ logged' = IF ok THEN Logged(<<"info">> \o SaveLog)
                 ELSE Logged(CatchLog(code))
    /\ UNCHANGED <<startup, interactions, received, process, currentLevel>>

----------------------------------------------------------------------------
(* Command dispatch: client.on('interactionCreate') *)

\* The commands loaded into client.commands
Registered == {"enable", "disable", "status"}

\* Interactions received: chat-input commands, registered or not, and one
\* interaction that is no chat-input command
InteractionInputs ==
    { [chatInput |-> TRUE, name |-> n, channel |-> c] :
          n \in {"enable", "disable"}, c \in Channels }
    \cup { [chatInput |-> TRUE, name |-> n, channel |-> "c1"] :
          n \in {"status", "bogus"} }
    \cup { [chatInput |-> FALSE, name |-> "enable", channel |-> "c1"] }

\* What a command's execute does in its first synchronous segment after
\* its effect on the configuration: it throws, or it calls
\* interaction.reply / interaction.deferReply and awaits the call
Plans == {"throw", "respond"}

\* The call a command answers the interaction with
CommandResponds(name) == IF name = "status" THEN "deferReply" ELSE "reply"

\* The effect of command.execute on the configuration through the context
\* it is given (addChannel, removeChannel)
ExecuteEffect(name, channelId, saveOk) ==
    IF name = "enable" THEN addChannel(channelId, saveOk)
    ELSE IF name = "disable" THEN removeChannel(channelId, saveOk)
    ELSE UNCHANGED enabledChannels /\ NoSave /\ chanCall' = NoCall

\* Variant: the error message is always sent with reply
CatchCommandErrorReplyOnly(i) ==
    [i EXCEPT !.threw = TRUE, !.errorReplies = @ + 1, !.pc = "awaitError"]

\* lines 171-181: the catch block sends the error message with followUp
\* when the interaction was replied to or deferred, with reply otherwise
CatchCommandError(i) ==
    IF i.replied \/ i.deferred
    THEN [i EXCEPT !.threw = TRUE, !.errorFollowUps = @ + 1,
                   !.pc = "awaitError"]
    ELSE [i EXCEPT !.threw = TRUE, !.errorReplies = @ + 1,
                   !.pc = "awaitError"]

\* lines 160-170: the handler's record once its first segment has run
NewInteraction(input, plan) ==
    LET base == [responds |-> "none", responses |-> 0,
                 replied |-> FALSE, deferred |-> FALSE, threw |-> FALSE,
                 errorReplies |-> 0, errorFollowUps |-> 0, pc |-> "start"]
    IN  IF ~input.chatInput THEN [base EXCEPT !.pc = "ignored"]
        ELSE IF input.name \notin Registered
             THEN [base EXCEPT !.pc = "unknown"]
        ELSE IF plan = "throw" THEN CatchCommandError(base)
        ELSE [base EXCEPT !.responds = CommandResponds(input.name),
                          !.responses = 1, !.pc = "awaitResponse"]

\* lines 165, 172: the error line for an unknown command, and the one of
\* the catch block the handler has just entered
InteractionLog(i) ==
    IF i.pc \in {"unknown", "awaitError"} THEN <<"error">> ELSE <<>>

\* lines 159-181: an interaction arrives; the handler runs to its first await
InteractionCreate(input, plan, saveOk) ==
    /\ Running
    /\ EventsReceived < MaxEvents
    /\ received' = [received EXCEPT !.interactions = @ + 1]
    /\ interactions' = Start(interactions, NewInteraction(input, plan))
    /\ event' = [type |-> "interactionCreate", chatInput |-> input.chatInput,
                 name |-> input.name, channel |-> input.channel,
                 handler |-> NewInteraction(input, plan)]
    /\ UNCHANGED <<contentFilters, statistics>>
    /\ IF input.chatInput /\ input.name \in Registered
       THEN ExecuteEffect(input.name, input.channel, saveOk)
       ELSE UNCHANGED enabledChannels /\ NoSave /\ chanCall' = NoCall
    /\ logged' = Logged(SaveLog \o InteractionLog(NewInteraction(input, plan)))
    /\ UNCHANGED <<startup, messages, process, currentLevel>>

\* The record after the command's reply / deferReply call has settled;
\* execute then returns or throws
AfterResponse(i, ok, thenThrows) ==
    IF ~ok THEN CatchCommandError(i)
    ELSE LET r == IF i.responds = "deferReply"
                  THEN [i EXCEPT !.deferred = TRUE]
                  ELSE [i EXCEPT !.replied = TRUE]
         IN  IF thenThrows THEN CatchCommandError(r)
             ELSE [r EXCEPT !.pc = "done"]

\* line 170: the awaited command.execute goes on after its reply call
ResponseSettles(n, ok, thenThrows) ==
    /\ Running
    /\ n \in DOMAIN interactions
    /\ interactions[n].pc = "awaitResponse"
    /\ interactions' =
            Resume(interactions, n, AfterResponse(interactions[n], ok, thenThrows))
    /\ event' = [type |-> "responseSettles", ok |-> ok,
                 handler |-> AfterResponse(interactions[n], ok, thenThrows)]
    /\ chanCall' = NoCall
    /\ NoSave
    /\ logged' =
            Logged(InteractionLog(AfterResponse(interactions[n], ok, thenThrows)))
    /\ UNCHANGED <<enabledChannels, contentFilters, statistics, startup,
                   messages, received, process, currentLevel>>

\* lines 177, 179: the handler's record after the awaited error reply /
\* followUp has settled; when the call fails the handler's promise rejects
AfterErrorReply(i, ok) ==
    [i EXCEPT !.pc = IF ok THEN "done" ELSE "rejected"]

\* lines 177, 179, 185-191: the awaited error reply / followUp settles; the
\* rejection of the handler's promise is logged by the client's error hook
\* or by the unhandledRejection hook, and the process goes on
ErrorReplySettles(n, ok) ==
    /\ Running
    /\ n \in DOMAIN interactions
    /\ interactions[n].pc = "awaitError"
    /\ interactions' =
            Resume(interactions, n, AfterErrorReply(interactions[n], ok))
    /\ event' = [type |-> "errorReplySettles", ok |-> ok,
                 handler |-> AfterErrorReply(interactions[n], ok)]
    /\ chanCall' = NoCall
    /\ NoSave
    /\ logged' = IF ok THEN <<>> ELSE Logged(<<"error">>)
    /\ UNCHANGED <<enabledChannels, contentFilters, statistics, startup,
                   messages, received, process, currentLevel>>

----------------------------------------------------------------------------
(* Process lifecycle: SIGINT / SIGTERM *)

\* Variant: the process gives up with exit code 1 when the save fails,
\* before the client is destroyed
SignalStopsOnFailure(sig, saveOk) ==
    /\ Running
    /\ UNCHANGED <<enabledChannels, contentFilters, statistics>>
    /\ saveConfig(saveOk)
    /\ process' = IF saveOk
                  THEN [status |-> "exited", exitCode |-> 0,
                        steps |-> <<"saveConfig", "destroy", "exit">>]
                  ELSE [status |-> "exited", exitCode |-> 1,
                        steps |-> <<"saveConfig", "exit">>]
    /\ event' = [type |-> "signal"]
    /\ chanCall' = NoCall
    /\ logged' = Logged(<<"info">> \o SaveLog)
    /\ UNCHANGED <<startup, messages, interactions, received, currentLevel>>

\* lines 199-211: saveConfig(), client.destroy(), process.exit(0)
Signal(sig, saveOk) ==
    /\ Running
    /\ UNCHANGED <<enabledChannels, contentFilters, statistics>>
    /\ saveConfig(saveOk)
    /\ process' = [status |-> "exited", exitCode |-> 0,
                   steps |-> <<"saveConfig", "destroy", "exit">>]
    /\ event' = [type |-> "signal"]
    /\ chanCall' = NoCall
    /\ logged' = Logged(<<"info">> \o SaveLog)
    /\ UNCHANGED <<startup, messages, interactions, received, currentLevel>>

----------------------------------------------------------------------------
(* Specification *)

NoEvent == [type |-> "none"]

\* lines 16-22: the state after config.json has been loaded, for the
\* documents the file may hold
Loaded(channelArrays, filterConfigs, statisticsRecords) ==
    /\ enabledChannels \in channelArrays
    /\ contentFilters \in filterConfigs
    /\ statistics \in statisticsRecords
    /\ startup = statistics
    /\ file = JSONStringify(Config)
    /\ saveCalls = 0
    /\ saved = "none"
    /\ messages = <<>>
    /\ interactions = <<>>
    /\ received = [messages |-> 0, interactions |-> 0, accepted |-> 0]
    /\ chanCall = NoCall
    /\ event = NoEvent
    /\ process = [status |-> "running", exitCode |-> -1, steps |-> <<>>]
    /\ currentLevel = DefaultLevel
    /\ logged = <<>>

Init == Loaded(InitChannels, FilterConfigs, InitStatistics)

Next ==
    \/ \E bot \in BOOLEAN, c \in Channels, text \in Contents :
            MessageCreate(bot, c, text)
    \/ \E m \in DOMAIN messages, ok \in BOOLEAN, code \in ReactErrorCodes :
            WinSettles(m, ok, code)
    \/ \E m \in DOMAIN messages, ok \in BOOLEAN, code \in ReactErrorCodes,
          saveOk \in BOOLEAN :
            LossSettles(m, ok, code, saveOk)
    \/ \E input \in InteractionInputs, plan \in Plans, saveOk \in BOOLEAN :
            InteractionCreate(input, plan, saveOk)
    \/ \E n \in DOMAIN interactions, ok \in BOOLEAN, thenThrows \in BOOLEAN :
            ResponseSettles(n, ok, thenThrows)
    \/ \E n \in DOMAIN interactions, ok \in BOOLEAN : ErrorReplySettles(n, ok)
    \/ \E sig \in {"SIGINT", "SIGTERM"}, saveOk \in BOOLEAN :
            Signal(sig, saveOk)

Spec == Init /\ [][Next]_vars

----------------------------------------------------------------------------
(* The content filters over a range of filter settings and contents *)

\* Messages received in one run of SpecFilter
MaxFiltered == 1

Win == <<"w", "i", "n">>
Loss == <<"l", "o", "s", "s">>
Spam == <<"s", "p", "a", "m">>
SpamWin == Spam \o <<" ">> \o Win

\* Contents of 9 and of 10 UTF-16 code units that hold a required keyword
\* and no excluded one
Nine == Win \o <<"1", "2", "3", "4", "5", "6">>
Ten == Win \o <<"1", "2", "3", "4", "5", "6", "7">>
NineDotted == <<DottedI>> \o Win \o <<"1", "2", "3", "4", "5">>

FilterContents ==
    { SpamWin, <<"S", "P", "A", "M">> \o <<" ">> \o Win, Win, <<"G", "G">>,
      <<"W", "i", "n">>, Nine, Ten, NineDotted }

\* Filter settings: keyword lists empty or not, keywords in either case, a
\* minimum length that no content, some content or the longest content only
\* reaches
FilterSettings ==
    { [enabled          |-> en,
       requiredKeywords |-> req,
       excludedKeywords |-> exc,
       minLength        |-> n] :
        en \in BOOLEAN,
        req \in { <<>>, <<Win, Loss>>, << <<"W", "I", "N">> >> },
        exc \in { <<>>, <<Spam>> },
        n \in {0, 3, 10} }

InitFilter == Loaded({ <<"c1">> }, FilterSettings, InitStatistics)

FilterMessage(bot, channelId, text) ==
    /\ received.messages < MaxFiltered
    /\ OnMessageCreate(bot, channelId, text)

NextFilter ==
    \/ \E bot \in BOOLEAN, c \in Channels, text \in FilterContents :
            FilterMessage(bot, c, text)
    \/ \E m \in DOMAIN messages, ok \in BOOLEAN, code \in ReactErrorCodes :
            WinSettles(m, ok, code)
    \/ \E m \in DOMAIN messages, ok \in BOOLEAN, code \in ReactErrorCodes,
          saveOk \in BOOLEAN :
            LossSettles(m, ok, code, saveOk)

SpecFilter == InitFilter /\ [][NextFilter]_vars

----------------------------------------------------------------------------
(* A burst of messages in an enabled channel, from any loaded counter *)

\* Messages received in one run of SpecBurst
MaxBurst == 5

\* Values of statistics.totalReactions a configuration file may carry: one
\* for every remainder modulo 10
LoadedTotals == 0..9

LoadedStatistics ==
    { [totalReactions    |-> t,
       messagesProcessed |-> t \div 2,
       failedReactions   |-> 0,
       lastReactionTime  |-> "loaded"] : t \in LoadedTotals }

InitBurst == Loaded({ <<"c1">> }, FilterConfigs, LoadedStatistics)

BurstMessage(bot, text) ==
    /\ received.messages < MaxBurst
    /\ OnMessageCreate(bot, "c1", text)

NextBurst ==
    \/ \E bot \in BOOLEAN, text \in Contents : BurstMessage(bot, text)
    \/ \E m \in DOMAIN messages, ok \in BOOLEAN, code \in ReactErrorCodes :
            WinSettles(m, ok, code)
    \/ \E m \in DOMAIN messages, ok \in BOOLEAN, code \in ReactErrorCodes,
          saveOk \in BOOLEAN :
            LossSettles(m, ok, code, saveOk)

SpecBurst == InitBurst /\ [][NextBurst]_vars

----------------------------------------------------------------------------
(* The logger under calls of setLevel and of error / warn / info / debug *)

\* The logger's caller leaves the bot's state alone
BotUnchanged ==
    UNCHANGED <<enabledChannels, contentFilters, statistics, file, saveCalls,
                saved, startup, messages, interactions, received, chanCall,
                process>>

\* logger.setLevel(level)
SetLevel(level) ==
    /\ setLevel(level)
    /\ logged' = <<>>
    /\ event' = [type |-> "setLevel", level |-> level]
    /\ BotUnchanged

\* logger.error / warn / info / debug (message)
LogCall(level) ==
    /\ logged' = Logged(<<level>>)
    /\ event' = [type |-> "log", level |-> level]
    /\ UNCHANGED currentLevel
    /\ BotUnchanged

NextLogger ==
    \/ \E level \in SetLevelInputs : SetLevel(level)
    \/ \E level \in LevelNames : LogCall(level)

SpecLogger == Init /\ [][NextLogger]_vars

----------------------------------------------------------------------------
(* Properties *)

\* The step starts a messageCreate handler / resumes one
IsMessageCreate == event'.type = "messageCreate"
IsReactSettles == event'.type = "reactSettles"

\* The step leaves the configuration document and the file alone and calls
\* saveConfig not at all
ConfigUntouched ==
    /\ Config' = Config
    /\ saveCalls' = saveCalls
    /\ file' = file

\* The handler of the step has returned without a call of message.react
ReturnedWithoutReact ==
    /\ event'.handler.calls = <<>>
    /\ event'.handler.pc \notin Suspended
    /\ messages' = messages

\* C1: a message whose channel is not in enabledChannels when the handler
\* runs gets no message.react call, changes no statistics field and calls
\* saveConfig not at all.
C1_DisabledChannelFrame ==
    [][(IsMessageCreate /\ ~ArrayIncludes(enabledChannels, event'.channel))
         => (ReturnedWithoutReact /\ ConfigUntouched)]_vars

\* C1 witness: a message of a user, with content that passes the filters,
\* was handled in a channel that is not enabled while another channel is.
C1_Witness ==
    /\ event.type = "messageCreate"
    /\ ~event.bot
    /\ event.content = <<"W", "i", "n">>
    /\ ~ArrayIncludes(enabledChannels, event.channel)
    /\ Len(enabledChannels) > 0
    /\ event.handler.pc = "ignoredChannel"

\* C2: a message of a bot account gets no message.react call and leaves
\* config unchanged, whatever the channel and the contentFilters settings.
C2_BotMessagesIgnored ==
    [][(IsMessageCreate /\ event'.bot)
         => (ReturnedWithoutReact /\ ConfigUntouched)]_vars

\* C2 witness: a bot's message was handled in an enabled channel with
\* content filtering off.
C2_Witness ==
    /\ event.type = "messageCreate"
    /\ event.bot
    /\ ArrayIncludes(enabledChannels, event.channel)
    /\ ~contentFilters.enabled
    /\ event.handler.pc = "ignoredBot"

\* C3: when both message.react calls succeed, totalReactions grows by 2,
\* messagesProcessed by 1, lastReactionTime is set, and failedReactions
\* and enabledChannels stay as they are.
C3_SuccessCounts ==
    [][(IsReactSettles /\ event'.handler.results = <<"ok", "ok">>)
         => /\ statistics'.totalReactions = statistics.totalReactions + 2
            /\ statistics'.messagesProcessed =
                    statistics.messagesProcessed + 1
            /\ statistics'.lastReactionTime = "now"
            /\ statistics'.failedReactions = statistics.failedReactions
            /\ enabledChannels' = enabledChannels]_vars

\* C3 witness: both reactions of a message succeeded, starting from the
\* loaded statistics.
C3_Witness ==
    /\ event.type = "reactSettles"
    /\ event.handler.results = <<"ok", "ok">>
    /\ event.handler.pc = "reacted"
    /\ statistics.messagesProcessed > 0

\* The resumed handler has returned and has made no further react call
ReturnedWithoutRetry ==
    /\ event'.handler.pc = "failed"
    /\ \E m \in DOMAIN messages :
            /\ messages[m].calls = event'.handler.calls
            /\ messages' = RemoveAt(messages, m)

\* C4: when either message.react call fails, failedReactions grows by
\* exactly 1, totalReactions, messagesProcessed and lastReactionTime stay
\* as they are, and no reaction call is retried.
C4_FailureCounts ==
    [][(IsReactSettles /\ ~event'.ok)
         => /\ statistics'.failedReactions = statistics.failedReactions + 1
            /\ statistics'.totalReactions = statistics.totalReactions
            /\ statistics'.messagesProcessed = statistics.messagesProcessed
            /\ statistics'.lastReactionTime = statistics.lastReactionTime
            /\ ReturnedWithoutRetry]_vars

\* C4 witness: the win reaction succeeded and the loss reaction failed.
C4_Witness ==
    /\ event.type = "reactSettles"
    /\ event.emoji = "lossEmoji"
    /\ event.handler.results = <<"ok", "error">>
    /\ statistics.failedReactions = 1


\* The step calls addChannel with the id the step before called it with
AddsTwiceInARow ==
    /\ chanCall.op = "addChannel"
    /\ chanCall'.op = "addChannel"
    /\ chanCall'.id = chanCall.id

\* The second of two addChannel(id) calls in a row leaves one occurrence of
\* id, changes nothing and does not call saveConfig
SecondAddIsNoOp ==
    /\ Count(enabledChannels', chanCall'.id) = 1
    /\ ConfigUntouched

\* C5 as stated: addChannel(id) twice in a row leaves one occurrence of id,
\* the second call changes nothing and does not save, and both calls
\* return true.
C5_BothCallsReturnTrue ==
    [][AddsTwiceInARow
         => (SecondAddIsNoOp /\ chanCall.ret /\ chanCall'.ret)]_vars

\* C5 amended: addChannel(id) twice in a row leaves one occurrence of id,
\* the second call changes nothing, does not save and returns true; the
\* first call returns true unless the id was absent, so that saveConfig
\* was called and its result (false when the write fails) was returned.
C5_AddChannelIdempotent ==
    [][AddsTwiceInARow
         => /\ SecondAddIsNoOp
            /\ chanCall'.ret
            /\ (~chanCall.ret => ~chanCall.present)]_vars

\* C5 witness: addChannel(id) was called twice in a row, the first time
\* with the id absent.
C5_Witness ==
    /\ chanCall.op = "addChannel"
    /\ chanCall.again
    /\ chanCall.present
    /\ chanCall.ret
    /\ saveCalls = 1
    /\ Count(enabledChannels, chanCall.id) = 1

\* C6: removeChannel(id) for an id that is not in enabledChannels returns
\* true, leaves config unchanged and does not write the configuration file.
C6_RemoveAbsentIsNoOp ==
    [][(chanCall'.op = "removeChannel"
            /\ ~ArrayIncludes(enabledChannels, chanCall'.id))
         => (chanCall'.ret /\ ConfigUntouched)]_vars

\* C6 witness: removeChannel was called for an id that is not enabled
\* while another channel is.
C6_Witness ==
    /\ chanCall.op = "removeChannel"
    /\ ~chanCall.present
    /\ chanCall.ret
    /\ Len(enabledChannels) > 0
    /\ ~ArrayIncludes(enabledChannels, chanCall.id)

InteractionHandlers ==
    {interactions[n] : n \in DOMAIN interactions}
    \cup (IF event.type \in {"interactionCreate", "responseSettles",
                             "errorReplySettles"}
          THEN {event.handler} ELSE {})

\* C8: a chat-input interaction with an unregistered command name gets no
\* reply and no followUp; when a registered command's execute throws,
\* exactly one error message is sent for the interaction, with followUp
\* when the interaction was replied to or deferred and with reply otherwise.
C8_OneErrorReply ==
    /\ (/\ event.type = "interactionCreate"
        /\ event.chatInput
        /\ event.name \notin Registered)
         => /\ event.handler.responses = 0
            /\ event.handler.errorReplies = 0
            /\ event.handler.errorFollowUps = 0
            /\ event.handler.pc \notin Suspended
    /\ \A h \in InteractionHandlers :
         /\ h.threw =>
              /\ h.errorReplies + h.errorFollowUps = 1
              /\ (h.errorFollowUps = 1) <=> (h.replied \/ h.deferred)
         /\ ~h.threw => (h.errorReplies = 0 /\ h.errorFollowUps = 0)

\* C8 witness: execute threw after its deferReply call had succeeded, and
\* the error message went out with followUp.
C8_Witness ==
    /\ event.type = "responseSettles"
    /\ event.handler.threw
    /\ event.handler.deferred
    /\ event.handler.errorFollowUps = 1
    /\ event.handler.errorReplies = 0

IsPrefix(a, b) ==
    /\ Len(a) <= Len(b)
    /\ \A i \in DOMAIN a : a[i] = b[i]

\* The step resumes one suspended messageCreate handler and leaves the
\* other suspended handlers as they are
ResumesOneMessage ==
    /\ interactions' = interactions
    /\ \E m \in DOMAIN messages :
            \/ messages' = [messages EXCEPT ![m] = event'.handler]
            \/ messages' = RemoveAt(messages, m)

\* The statistics change of one step: none, one failure, or one success
\* counted on top of the current values
OneStatisticsUpdate ==
    \/ statistics' = statistics
    \/ statistics' =
         [statistics EXCEPT !.failedReactions = @ + 1]
    \/ statistics' =
         [statistics EXCEPT !.totalReactions = @ + 2,
                            !.messagesProcessed = @ + 1,
                            !.lastReactionTime = "now"]

\* C9 as stated: while a messageCreate handler is suspended at an await no
\* other handler runs on config, so that a step other than the resumption
\* of a messageCreate handler leaves config unchanged.
C9_ConfigStableWhileSuspended ==
    [][(messages # <<>> /\ ~IsReactSettles) => Config' = Config]_vars

\* C9 amended: a handler runs without interruption up to its next await
\* only.  While a messageCreate handler is suspended other handlers run and
\* may change config; every step is one segment of one handler, which
\* leaves the other suspended handlers as they are; only interactionCreate
\* segments change enabledChannels, only resumed messageCreate handlers
\* change statistics, by one update of the current values.
C9_SegmentsAtomic ==
    [][/\ ~IsReactSettles =>
            (statistics' = statistics /\ IsPrefix(messages, messages'))
       /\ IsReactSettles => ResumesOneMessage
       /\ event'.type # "interactionCreate" =>
            enabledChannels' = enabledChannels
       /\ event'.type \notin {"responseSettles", "errorReplySettles"} =>
            IsPrefix(interactions, interactions')
       /\ OneStatisticsUpdate]_vars

\* C9 witness: a messageCreate handler is suspended at an await and the
\* last step was an interactionCreate handler that removed a channel.
C9_Witness ==
    /\ messages # <<>>
    /\ event.type = "interactionCreate"
    /\ chanCall.op = "removeChannel"
    /\ chanCall.present

\* The records of the messageCreate handlers: the suspended ones and the
\* one that ran in the last step
MessageHandlers ==
    {messages[m] : m \in DOMAIN messages}
    \cup (IF event.type \in {"messageCreate", "reactSettles"}
          THEN {event.handler} ELSE {})

\* C10: the loss reaction is requested only after the win reaction has
\* been requested and has succeeded; after a failed win reaction it is not
\* requested.
C10_WinBeforeLoss ==
    \A h \in MessageHandlers :
        /\ h.calls \in {<<>>, <<"winEmoji">>, <<"winEmoji", "lossEmoji">>}
        /\ Len(h.calls) = 2 => (Len(h.results) >= 1 /\ h.results[1] = "ok")
        /\ Len(h.results) <= Len(h.calls)
        /\ h.pc = "awaitWin" => (h.calls = <<"winEmoji">> /\ h.results = <<>>)

\* C10 witness: the win reaction of one message failed and its handler
\* returned with that one call, while the handler of another message has
\* requested the loss reaction after a successful win reaction.
C10_Witness ==
    /\ event.type = "reactSettles"
    /\ event.handler.calls = <<"winEmoji">>
    /\ event.handler.results = <<"error">>
    /\ event.handler.pc = "failed"
    /\ \E m \in DOMAIN messages :
            /\ messages[m].calls = <<"winEmoji", "lossEmoji">>
            /\ messages[m].results = <<"ok">>

----------------------------------------------------------------------------
(* Content filters *)

\* Keyword matching: case-insensitive substring containment
ContainsKeyword(text, keyword) ==
    includes(toLowerCase(text), toLowerCase(keyword))

ContainsSome(text, keywords) ==
    \E i \in DOMAIN keywords : ContainsKeyword(text, keywords[i])

\* C11: with content filtering enabled, a message that contains an excluded
\* keyword gets no message.react call and changes no statistics, also when
\* it contains a required keyword as well, as "spam win" does with the
\* required keywords win, loss and the excluded keyword spam.
C11_ExcludedTakesPrecedence ==
    [][(/\ IsMessageCreate
        /\ contentFilters.enabled
        /\ ContainsSome(event'.content, contentFilters.excludedKeywords))
         => (ReturnedWithoutReact /\ ConfigUntouched)]_vars

\* C11 witness: a user's message "spam win" in an enabled channel was
\* rejected by the filters with the required keywords win, loss, the
\* excluded keyword spam and a minimum length the message reaches.
C11_Witness ==
    /\ event.type = "messageCreate"
    /\ ~event.bot
    /\ ArrayIncludes(enabledChannels, event.channel)
    /\ event.content = SpamWin
    /\ contentFilters.enabled
    /\ contentFilters.requiredKeywords = <<Win, Loss>>
    /\ contentFilters.excludedKeywords = <<Spam>>
    /\ contentFilters.minLength <= Len(SpamWin)
    /\ event.handler.pc = "filtered"
    /\ statistics = startup

\* A user's message in an enabled channel reaches the content filters,
\* which are enabled
ReachesFilters ==
    /\ IsMessageCreate
    /\ ~event'.bot
    /\ ArrayIncludes(enabledChannels, event'.channel)
    /\ contentFilters.enabled

\* The content passes the keyword filters
PassesKeywords(text) ==
    /\ (contentFilters.requiredKeywords = <<>>
            \/ ContainsSome(text, contentFilters.requiredKeywords))
    /\ ~ContainsSome(text, contentFilters.excludedKeywords)

\* The handler of the step has called message.react(winEmoji)
Reacts ==
    /\ event'.handler.calls = <<"winEmoji">>
    /\ event'.handler.pc = "awaitWin"

\* C12: with content filtering enabled and minLength = n, a message that
\* passes the keyword filters is rejected when its content has fewer than n
\* UTF-16 code units and gets the reaction calls when it has n or more.
C12_LengthThreshold ==
    [][(ReachesFilters /\ PassesKeywords(event'.content))
         => IF Len(event'.content) < contentFilters.minLength
            THEN ReturnedWithoutReact /\ ConfigUntouched
            ELSE Reacts]_vars

\* The reference predicate of the accept decision
AcceptReference(bot, channelId, text) ==
    /\ ~bot
    /\ ArrayIncludes(enabledChannels, channelId)
    /\ \/ ~contentFilters.enabled
       \/ /\ \/ contentFilters.requiredKeywords = <<>>
             \/ ContainsSome(text, contentFilters.requiredKeywords)
          /\ ~ContainsSome(text, contentFilters.excludedKeywords)
          /\ Len(text) >= contentFilters.minLength

\* C15: a message gets the reaction calls if and only if its author is no
\* bot, its channel is enabled, and content filtering is off or the content
\* holds a required keyword (when any is configured), holds no excluded
\* keyword and has at least minLength code units; with content filtering
\* off every user's message in an enabled channel gets them.
C15_AcceptDecision ==
    [][IsMessageCreate
         => /\ Reacts <=> AcceptReference(event'.bot, event'.channel,
                                          event'.content)
            /\ (/\ ~contentFilters.enabled
                /\ ~event'.bot
                /\ ArrayIncludes(enabledChannels, event'.channel))
                 => Reacts]_vars

----------------------------------------------------------------------------
(* Persistence *)

----------------------------------------------------------------------------
(* Logger *)

\* C14: a debug call emits nothing while the threshold is info, and an
\* error call is emitted to the console and the log file under every
\* threshold that calls of setLevel can set, calls with a name other than
\* error, warn, info, debug included.
C14_ErrorNeverDropped ==
    /\ (event.type = "log" /\ event.level = "debug"
            /\ currentLevel = Number(logLevels.info))
         => logged = <<>>
    /\ (event.type = "log" /\ event.level = "error")
         => logged = <<"error">>

----------------------------------------------------------------------------
(* Periodic save *)

\* Both reactions of the resumed message have succeeded
IsSuccess == IsReactSettles /\ event'.handler.results = <<"ok", "ok">>

\* C16: a successfully reacted message calls saveConfig exactly when its
\* increment brings totalReactions to a multiple of 10, and once 5 messages
\* have been reacted to since startup saveConfig has been called, whatever
\* totalReactions the loaded configuration held.
C16_SavesEveryTenReactions ==
    [][IsSuccess
         => /\ (saveCalls' = saveCalls + 1)
                    <=> (statistics'.totalReactions % 10 = 0)
            /\ saveCalls' \in {saveCalls, saveCalls + 1}
            /\ (statistics'.messagesProcessed
                    - startup.messagesProcessed >= 5) => saveCalls' >= 1]_vars

----------------------------------------------------------------------------
(* Error containment *)

\* C17: errors of one event do not escape its handler: after a failed
\* message.react call the messageCreate handler has returned, and after an
\* exception of command.execute the interactionCreate handler returns
\* without a rejection of its promise, also when its error reply or
\* followUp call fails; the process keeps running.
C17_ErrorsStayInHandler ==
    /\ (event.type = "reactSettles" /\ ~event.ok)
         => (event.handler.pc = "failed" /\ Running)
    /\ (event.type \in {"interactionCreate", "responseSettles",
                        "errorReplySettles"} /\ event.handler.threw)
         => (event.handler.pc \in {"awaitError", "done"} /\ Running)

\* The membership of every channel other than id is the same before and
\* after the step
OthersKept(id) ==
    \A c \in Channels \ {id} :
        ArrayIncludes(enabledChannels', c) <=> ArrayIncludes(enabledChannels, c)

\* C19: from a duplicate-free enabledChannels, the channel is enabled after
\* addChannel(id) has returned and not enabled after removeChannel(id) has
\* returned, whether the call returns true or false; a false return means
\* that the file write failed and nothing else: the change in memory
\* stays and no other channel's membership changes.
C19_MemoryEffectRegardlessOfSave ==
    [][(/\ chanCall'.op \in {"addChannel", "removeChannel"}
        /\ \A c \in Channels : Count(enabledChannels, c) <= 1)
         => /\ chanCall'.op = "addChannel"
                    => ArrayIncludes(enabledChannels', chanCall'.id)
            /\ chanCall'.op = "removeChannel"
                    => ~ArrayIncludes(enabledChannels', chanCall'.id)
            /\ OthersKept(chanCall'.id)
            /\ ~chanCall'.ret <=> saved' = "failed"
            /\ saved' = "failed" => file' = file]_vars

\* C19 witness: addChannel has returned false for a channel that was not
\* enabled while the other channel was; both are enabled now and the file
\* still holds the one channel.
C19_Witness ==
    /\ chanCall.op = "addChannel"
    /\ ~chanCall.ret
    /\ ~chanCall.present
    /\ saved = "failed"
    /\ Len(enabledChannels) = 2
    /\ ArrayIncludes(enabledChannels, chanCall.id)
    /\ Len(JSONParse(file).enabledChannels) = 1

----------------------------------------------------------------------------
(* Shutdown *)

\* C18: on SIGINT or SIGTERM the process calls saveConfig, then
\* client.destroy, then exits with code 0, also when the save fails; when
\* the save succeeds the file at exit holds the in-memory config as it was
\* when the signal came, statistics not saved before included.
C18_GracefulShutdown ==
    [][event'.type = "signal"
         => /\ process'.status = "exited"
            /\ process'.exitCode = 0
            /\ process'.steps = <<"saveConfig", "destroy", "exit">>
            /\ saveCalls' = saveCalls + 1
            /\ Config' = Config
            /\ saved' \in {"written", "failed"}
            /\ saved' = "written" => JSONParse(file') = Config
            /\ saved' = "failed" => file' = file]_vars

\* C18 witness: the process has exited on a signal whose save, the first
\* one of the run, wrote a failedReactions increment to the file.
C18_Witness ==
    /\ process.status = "exited"
    /\ process.exitCode = 0
    /\ event.type = "signal"
    /\ saved = "written"
    /\ saveCalls = 1
    /\ statistics.failedReactions = startup.failedReactions + 1
    /\ JSONParse(file).statistics.failedReactions = statistics.failedReactions

----------------------------------------------------------------------------
(* Statistics *)

\* Growth of a counter since startup
Growth(counter) == statistics[counter] - startup[counter]

\* Messages that passed every check and whose handler has finished
FinishedAccepted == received.accepted - Len(messages)

\* C20: under every interleaving of message events the counters never
\* decrease, totalReactions has grown since startup by twice the growth of
\* messagesProcessed, and the messages that passed the filters and whose
\* handler has finished number the growth of messagesProcessed plus the
\* growth of failedReactions.
C20_CountersConsistent ==
    [][/\ statistics'.totalReactions >= statistics.totalReactions
       /\ statistics'.messagesProcessed >= statistics.messagesProcessed
       /\ statistics'.failedReactions >= statistics.failedReactions
       /\ Growth("totalReactions")' = 2 * Growth("messagesProcessed")'
       /\ FinishedAccepted' =
            Growth("messagesProcessed")' + Growth("failedReactions")']_vars

\* C20 witness: of the messages received some were rejected, one was
\* reacted to and one failed while the handler of another one is still
\* suspended.
C20_Witness ==
    /\ received.messages > received.accepted
    /\ messages # <<>>
    /\ Growth("messagesProcessed") = 1
    /\ Growth("failedReactions") = 1
    /\ Growth("totalReactions") = 2
    /\ FinishedAccepted = 2

====
